---- MODULE Spec2Model ----
(***************************************************************************)
(* Subprocess agent-run coordinators of agent-stuff: runQwenAgent,         *)
(* runCodexAgent and runGeminiAgent.  One run of one runner is modelled:   *)
(* the RunState record, the abort listener, the throttle timer, the kill   *)
(* escalation timer and the child process as the Node runtime presents it  *)
(* ('error' on a failed spawn or a failed kill, 'exit' before 'close').    *)
(***************************************************************************)
EXTENDS Integers, FiniteSets, Sequences, TLC

VARIABLES cfg, now, r, parser, content

vars == <<cfg, now, r, parser, content>>

\* ---------------------------------------------------------------- bounds
\* Date.now() when the run is invoked (any instant later than THROTTLE_MS).
StartTime == 1000
\* The clock is followed for this many milliseconds after StartTime.
Horizon == 2300
\* During the first FineWindow milliseconds the clock advances in steps of
\* FineStep; at any time it can advance to the deadline of a pending timer.
FineStep == 75
FineWindow == 150

\* ------------------------------------------------------------- constants
THROTTLE_MS == 150
KILL_GRACE_MS == 2000

Runners == {"qwen", "codex", "gemini"}
Statuses == {"running", "done", "error", "aborted"}
\* What one batch of parsed stdout events does to the fields modelled here:
\* "error" carries a structured error event, "other" carries none.
EventKinds == {"other", "error"}
\* How a process ends: exit code 0, a non-zero exit code, or a signal
\* (exitCode stays null and signalCode is set).
ExitHows == {"0", "nonzero", "signal"}

NoSnap == [status |-> "none", endedAtSet |-> FALSE, error |-> "none"]

\* ------------------------------------------------------------ RunState
\* The run's mutable state: the RunState fields the lifecycle touches, the
\* closure variables of the runner, the child process as seen through
\* proc.exitCode / proc.signalCode, and observation fields (snaps, counters)
\* that record what the callbacks did.
InitRun ==
  [ phase           |-> "idle",      \* idle | pending | resolved (the promise)
    resolvedStatus  |-> "none",      \* state.status when resolve() took effect
    resolvedError   |-> "none",      \* state.error at that moment
    resolvedEndedAt |-> FALSE,       \* whether state.endedAt was set at that moment
    dirtyAtResolve  |-> FALSE,       \* RunState had changed since the last emission
    snapsAtResolve  |-> {},          \* snapshots emitted before that moment
    status          |-> "running",
    endedAtSet      |-> FALSE,
    endedAtWrites   |-> 0,
    error           |-> "none",      \* none | stream | exit | runtime
    streamErrorSeen |-> FALSE,       \* a structured error event was handled
    processError    |-> FALSE,       \* the process emitted 'error'
    dirty           |-> FALSE,       \* RunState changed since the last emission
    notified        |-> FALSE,       \* throttledUpdate was called
    lastEmitTime    |-> 0,           \* Date.now() at the last onUpdate call (0: none)
    earlyEmit       |-> FALSE,       \* throttledUpdate emitted < THROTTLE_MS after an emission
    aborted         |-> FALSE,       \* signal.aborted
    invokedAborted  |-> FALSE,       \* signal.aborted when the run was invoked
    abortedActive   |-> FALSE,       \* onAbort ran (signal fired while active)
    errorAtAbort    |-> "none",      \* state.error when onAbort ran
    listener        |-> FALSE,       \* onAbort registered on the signal
    listenerAdds    |-> 0,
    spawnCount      |-> 0,
    proc            |-> "none",      \* none | spawnfail | running | exited | closed
    exitCode        |-> "null",      \* null | 0 | nonzero | enoent
    signalCode      |-> "null",      \* null | SIG
    lastUpdateTime  |-> 0,
    updateTimerSet  |-> FALSE,
    updateTimerDue  |-> 0,
    updateTimers    |-> 0,           \* throttle timeouts neither fired nor cleared
    coalesced       |-> FALSE,       \* an update for onUpdate was absorbed by the pending
                                     \* throttle timeout
    forcedWhilePending |-> FALSE,    \* a forced emission ran while the pending
                                     \* throttle timeout was scheduled
    killTimerSet    |-> FALSE,       \* the variable killTimer is not null
    killTimerPending|-> FALSE,       \* its timeout has neither fired nor been cleared
    killTimerDue    |-> 0,
    killTimers      |-> 0,           \* kill timeouts neither fired nor cleared
    sigterm         |-> 0,
    sigtermTime     |-> 0,
    sigkill         |-> 0,
    sigkillTime     |-> 0,
    sigkillBy       |-> "none",      \* which callback called proc.kill("SIGKILL")
    killOnExited    |-> FALSE,       \* proc.kill was called after the process exited
    snaps           |-> {},          \* every snapshot handed to onUpdate
    lastSnap        |-> NoSnap,
    updateAfterResolve |-> FALSE ]

Snapshot(s) == [status |-> s.status, endedAtSet |-> s.endedAtSet, error |-> s.error]

\* onUpdate?.({ ...state })
emit(s) ==
  IF cfg.onUpdate
    THEN [s EXCEPT !.snaps = @ \cup {Snapshot(s)},
                   !.lastSnap = Snapshot(s),
                   !.dirty = FALSE,
                   !.lastEmitTime = now,
                   !.updateAfterResolve = @ \/ (s.phase = "resolved")]
    ELSE s

\* onUpdate?.({ ...state }) called directly by onAbort, 'close' or 'error'.
forcedEmit(s) ==
  emit([s EXCEPT !.forcedWhilePending = cfg.onUpdate /\ s.updateTimerSet])

\* resolve(state) / return state: only the first call settles the promise.
resolve(s) ==
  IF s.phase = "resolved"
    THEN s
    ELSE [s EXCEPT !.phase = "resolved",
                   !.resolvedStatus = s.status,
                   !.resolvedError = s.error,
                   !.resolvedEndedAt = s.endedAtSet,
                   !.dirtyAtResolve = s.dirty,
                   !.snapsAtResolve = s.snaps]

setEndedAt(s) == [s EXCEPT !.endedAtSet = TRUE, !.endedAtWrites = @ + 1]

\* throttledUpdate as it would be if it scheduled no deferred emission.
throttledUpdate_dropsTail(s) ==
  IF now - s.lastUpdateTime < THROTTLE_MS
    THEN [s EXCEPT !.notified = TRUE]
    ELSE emit([s EXCEPT !.notified = TRUE,
                        !.lastUpdateTime = now,
                        !.updateTimers = IF s.updateTimerSet THEN @ - 1 ELSE @,
                        !.forcedWhilePending = FALSE,
                        !.coalesced = FALSE,
                        !.updateTimerSet = FALSE, !.updateTimerDue = 0])

\* throttledUpdate as it would be without the `if (!updateTimer)` test.
throttledUpdate_noCoalescing(s) ==
  IF now - s.lastUpdateTime < THROTTLE_MS
    THEN [s EXCEPT !.notified = TRUE,
                   !.updateTimers = @ + 1,
                   !.forcedWhilePending = FALSE,
                        !.coalesced = FALSE,
                   !.updateTimerSet = TRUE,
                   !.updateTimerDue = now + (THROTTLE_MS - (now - s.lastUpdateTime))]
    ELSE emit([s EXCEPT !.notified = TRUE,
                        !.earlyEmit = @ \/ (cfg.onUpdate /\ s.lastEmitTime # 0
                                             /\ now - s.lastEmitTime < THROTTLE_MS),
                        !.lastUpdateTime = now,
                        !.updateTimers = IF s.updateTimerSet THEN @ - 1 ELSE @,
                        !.forcedWhilePending = FALSE,
                        !.coalesced = FALSE,
                        !.updateTimerSet = FALSE, !.updateTimerDue = 0])

throttledUpdate(s) ==
  IF now - s.lastUpdateTime < THROTTLE_MS
    THEN IF ~s.updateTimerSet
           THEN [s EXCEPT !.notified = TRUE,
                          !.updateTimers = @ + 1,
                          !.forcedWhilePending = FALSE,
                        !.coalesced = FALSE,
                          !.updateTimerSet = TRUE,
                          !.updateTimerDue = now + (THROTTLE_MS - (now - s.lastUpdateTime))]
           ELSE [s EXCEPT !.notified = TRUE, !.coalesced = cfg.onUpdate]
    ELSE emit([s EXCEPT !.notified = TRUE,
                        !.earlyEmit = @ \/ (cfg.onUpdate /\ s.lastEmitTime # 0
                                             /\ now - s.lastEmitTime < THROTTLE_MS),
                        !.lastUpdateTime = now,
                        !.updateTimers = IF s.updateTimerSet THEN @ - 1 ELSE @,
                        !.forcedWhilePending = FALSE,
                        !.coalesced = FALSE,
                        !.updateTimerSet = FALSE, !.updateTimerDue = 0])

\* The setTimeout callback scheduled by throttledUpdate.
updateTimerCallback(s) ==
  emit([s EXCEPT !.updateTimerSet = FALSE, !.updateTimerDue = 0,
                 !.updateTimers = @ - 1,
                 !.forcedWhilePending = FALSE,
                        !.coalesced = FALSE,
                 !.lastUpdateTime = now])

handleEvents(s, ev) ==
  throttledUpdate(IF ev = "error"
                    THEN [s EXCEPT !.error = "stream", !.streamErrorSeen = TRUE,
                                   !.dirty = TRUE]
                    ELSE [s EXCEPT !.dirty = TRUE])

\* The 'error' handler as it would be without its removeEventListener call.
onError_keepsListener(s) ==
  resolve(forcedEmit(setEndedAt([s EXCEPT !.status = "error", !.error = "runtime",
                                          !.processError = TRUE, !.dirty = TRUE])))

\* The 'error' handler as it would be if it did not capture err.message.
onError_noMessage(s) ==
  resolve(forcedEmit(setEndedAt([s EXCEPT !.listener = FALSE,
                                          !.status = "error",
                                          !.processError = TRUE,
                                          !.dirty = TRUE])))

\* proc.on("error", ...)
onError(s) ==
  resolve(forcedEmit(setEndedAt([s EXCEPT !.listener = FALSE,
                                          !.status = "error",
                                          !.error = "runtime",
                                          !.processError = TRUE,
                                          !.dirty = TRUE])))

\* proc.kill(sig) as called by `caller`.  With a live handle the signal is
\* delivered, or the kill fails and Node emits 'error' synchronously; after
\* the process has exited the call delivers nothing and returns false.
procKill(s, sig, caller, killFails) ==
  LET s1 == [s EXCEPT !.killOnExited = @ \/ (s.proc # "running"),
                      !.sigterm = IF sig = "SIGTERM" THEN @ + 1 ELSE @,
                      !.sigtermTime = IF sig = "SIGTERM" THEN now ELSE @,
                      !.sigkill = IF sig = "SIGKILL" THEN @ + 1 ELSE @,
                      !.sigkillTime = IF sig = "SIGKILL" THEN now ELSE @,
                      !.sigkillBy = IF sig = "SIGKILL" THEN caller ELSE @]
  IN IF s.proc = "running" /\ killFails THEN onError(s1) ELSE s1

\* The guard at the top of killProc.
hasExited(s) ==
  IF cfg.runner = "gemini"
    THEN s.exitCode # "null" \/ s.signalCode # "null"
    ELSE s.exitCode # "null"

killProc(s, killFails) ==
  IF hasExited(s)
    THEN s
    ELSE [procKill(s, "SIGTERM", "onAbort", killFails)
            EXCEPT !.killTimerSet = TRUE,
                   !.killTimerPending = TRUE,
                   !.killTimers = @ + 1,
                   !.killTimerDue = now + KILL_GRACE_MS]

\* The setTimeout callback scheduled by killProc.
killTimerCallback(s, killFails) ==
  LET s1 == [s EXCEPT !.killTimerPending = FALSE, !.killTimers = @ - 1]
  IN IF s.exitCode = "null" THEN procKill(s1, "SIGKILL", "killTimer", killFails) ELSE s1

\* onAbort as it would be if it forgot to stamp endedAt.
onAbort_noEndedAt(s, killFails) ==
  forcedEmit(killProc([s EXCEPT !.status = "aborted", !.abortedActive = TRUE,
                          !.errorAtAbort = s.error,
                          !.dirty = TRUE], killFails))

\* onAbort as it would be if it called killProc twice.
onAbort_killsTwice(s, killFails) ==
  forcedEmit(killProc(killProc(setEndedAt([s EXCEPT !.status = "aborted",
                                                   !.abortedActive = TRUE,
                                                   !.errorAtAbort = s.error,
                                                   !.dirty = TRUE]),
                               killFails), killFails))

onAbort(s, killFails) ==
  forcedEmit(killProc(setEndedAt([s EXCEPT !.status = "aborted", !.abortedActive = TRUE,
                                      !.errorAtAbort = s.error,
                                      !.dirty = TRUE]),
                killFails))

\* The 'close' handler's choice as it would be with `state.error = ...`
\* in place of `state.error = state.error ?? ...`.
closeStatus_overwritesError(s) ==
  IF s.status = "aborted" \/ (cfg.runner = "gemini" /\ s.status = "error")
    THEN s
    ELSE IF s.exitCode # "0" /\ s.exitCode # "null"
           THEN [s EXCEPT !.status = "error", !.error = "exit"]
           ELSE [s EXCEPT !.status = "done"]

\* The final status chosen by the 'close' handler.
closeStatus(s) ==
  IF s.status = "aborted" \/ (cfg.runner = "gemini" /\ s.status = "error")
    THEN s
    ELSE IF s.exitCode # "0" /\ s.exitCode # "null"
           THEN [s EXCEPT !.status = "error",
                          !.error = IF s.error = "none" THEN "exit" ELSE @]
           ELSE [s EXCEPT !.status = "done"]

\* The 'close' handler as it would be without its removeEventListener call.
onClose_keepsListener(s, rem) ==
  LET s1 == IF rem = "empty" THEN s ELSE handleEvents(s, rem)
      s2 == [s1 EXCEPT !.updateTimerSet = FALSE,
                       !.updateTimerDue = 0,
                       !.updateTimers = IF s1.updateTimerSet THEN @ - 1 ELSE @,
                       !.forcedWhilePending = FALSE,
                        !.coalesced = FALSE,
                       !.killTimerPending = IF s1.killTimerSet THEN FALSE ELSE @,
                       !.killTimers = IF s1.killTimerSet /\ s1.killTimerPending
                                        THEN @ - 1 ELSE @,
                       !.killTimerSet = FALSE,
                       !.dirty = TRUE]
  IN resolve(forcedEmit(setEndedAt(closeStatus(s2))))

\* proc.on("close", ...); rem is what parser.flush() returned.
onClose(s, rem) ==
  LET s1 == IF rem = "empty" THEN s ELSE handleEvents(s, rem)
      s2 == [s1 EXCEPT !.updateTimerSet = FALSE,
                       !.updateTimerDue = 0,
                       !.updateTimers = IF s1.updateTimerSet THEN @ - 1 ELSE @,
                       !.forcedWhilePending = FALSE,
                        !.coalesced = FALSE,
                       !.killTimerPending = IF s1.killTimerSet THEN FALSE ELSE @,
                       !.killTimers = IF s1.killTimerSet /\ s1.killTimerPending
                                        THEN @ - 1 ELSE @,
                       !.killTimerSet = FALSE,
                       !.listener = FALSE,
                       !.dirty = TRUE]
  IN resolve(forcedEmit(setEndedAt(closeStatus(s2))))

\* run*Agent as it would be if it spawned before looking at signal.aborted.
runAgent_spawnsFirst(s, spawnOk) ==
  LET s0 == [s EXCEPT !.invokedAborted = cfg.signal /\ s.aborted,
                      !.spawnCount = @ + 1,
                      !.proc = IF spawnOk THEN "running" ELSE "spawnfail"]
  IN IF cfg.signal /\ s.aborted
       THEN resolve(setEndedAt([s0 EXCEPT !.status = "aborted", !.dirty = TRUE]))
       ELSE [s0 EXCEPT !.phase = "pending",
                       !.listener = cfg.signal,
                       !.listenerAdds = IF cfg.signal THEN @ + 1 ELSE @]

\* The body of run*Agent up to the point where the promise is returned.
runAgent(s, spawnOk) ==
  LET s0 == [s EXCEPT !.invokedAborted = cfg.signal /\ s.aborted]
  IN IF cfg.signal /\ s.aborted
       THEN resolve(setEndedAt([s0 EXCEPT !.status = "aborted", !.dirty = TRUE]))
       ELSE [s0 EXCEPT !.phase = "pending",
                       !.spawnCount = @ + 1,
                       !.proc = IF spawnOk THEN "running" ELSE "spawnfail",
                       !.listener = cfg.signal,
                       !.listenerAdds = IF cfg.signal THEN @ + 1 ELSE @]

\* The stream parsers and the RunState contents have specifications of
\* their own (ParserSpec, ContentSpec); a lifecycle run leaves them idle.
NoParser == [kind |-> "none"]
NoContent == [runner |-> "none"]

\* ---------------------------------------------------------------- actions
Init ==
  /\ cfg \in [runner : Runners, signal : BOOLEAN, onUpdate : BOOLEAN]
  /\ now = StartTime
  /\ r = InitRun
  /\ parser = NoParser
  /\ content = NoContent

\* The caller invokes the runner.
Run ==
  /\ r.phase = "idle"
  /\ \E spawnOk \in BOOLEAN : r' = runAgent(r, spawnOk)
  /\ UNCHANGED <<cfg, now, parser, content>>

\* The caller's AbortSignal fires (once); a registered listener runs and,
\* being registered with { once: true }, is removed.
AbortSignal ==
  /\ cfg.signal
  /\ ~r.aborted
  /\ r.proc # "spawnfail"
  /\ \E killFails \in BOOLEAN :
       r' = IF r.listener
              THEN onAbort([r EXCEPT !.aborted = TRUE, !.listener = FALSE], killFails)
              ELSE [r EXCEPT !.aborted = TRUE]
  /\ UNCHANGED <<cfg, now, parser, content>>

\* The spawn failed (e.g. ENOENT): Node sets exitCode to the negative errno
\* and emits 'error' on the next tick; 'close' follows.
SpawnError ==
  /\ r.proc = "spawnfail"
  /\ r' = onError([r EXCEPT !.proc = "exited", !.exitCode = "enoent"])
  /\ UNCHANGED <<cfg, now, parser, content>>

StdoutData ==
  /\ r.proc \in {"running", "exited"}
  /\ r.exitCode # "enoent"
  /\ \E ev \in EventKinds : r' = handleEvents(r, ev)
  /\ UNCHANGED <<cfg, now, parser, content>>

\* proc.stderr.on("data"): Codex always notifies, Qwen and Gemini only when
\* the chunk completed at least one retained line.
StderrData ==
  /\ r.proc \in {"running", "exited"}
  /\ r.exitCode # "enoent"
  /\ \E complete \in BOOLEAN :
       r' = IF complete THEN throttledUpdate([r EXCEPT !.dirty = TRUE])
            ELSE IF cfg.runner = "codex" THEN throttledUpdate(r)
            ELSE r
  /\ UNCHANGED <<cfg, now, parser, content>>

UpdateTimerFire ==
  /\ r.updateTimerSet
  /\ now >= r.updateTimerDue
  /\ r' = updateTimerCallback(r)
  /\ UNCHANGED <<cfg, now, parser, content>>

KillTimerFire ==
  /\ r.killTimerPending
  /\ now >= r.killTimerDue
  /\ \E killFails \in BOOLEAN : r' = killTimerCallback(r, killFails)
  /\ UNCHANGED <<cfg, now, parser, content>>

\* The process ends; its stdio may stay open, so 'close' comes later.
ProcExit ==
  /\ r.proc = "running"
  /\ \E how \in ExitHows :
       r' = [r EXCEPT !.proc = "exited",
                      !.exitCode = IF how = "signal" THEN "null" ELSE how,
                      !.signalCode = IF how = "signal" THEN "SIG" ELSE "null"]
  /\ UNCHANGED <<cfg, now, parser, content>>

ProcClose ==
  /\ r.proc = "exited"
  /\ \E rem \in {"empty"} \cup EventKinds :
       /\ r.exitCode = "enoent" => rem = "empty"
       /\ r' = [onClose(r, rem) EXCEPT !.proc = "closed"]
  /\ UNCHANGED <<cfg, now, parser, content>>

\* The instants the clock can advance to.
NextTimes ==
  (IF now + FineStep <= StartTime + FineWindow THEN {now + FineStep} ELSE {})
    \cup (IF r.updateTimerSet THEN {r.updateTimerDue} ELSE {})
    \cup (IF r.killTimerPending THEN {r.killTimerDue} ELSE {})

\* Time passes; a timer that is due fires before the clock moves on.
Tick ==
  /\ r.proc \in {"running", "exited"} \/ r.updateTimerSet \/ r.killTimerPending
  /\ \E t \in NextTimes :
       /\ t > now
       /\ t <= StartTime + Horizon
       /\ r.updateTimerSet => t <= r.updateTimerDue
       /\ r.killTimerPending => t <= r.killTimerDue
       /\ now' = t
  /\ UNCHANGED <<cfg, r, parser, content>>

Next ==
  \/ Run
  \/ AbortSignal
  \/ SpawnError
  \/ StdoutData
  \/ StderrData
  \/ UpdateTimerFire
  \/ KillTimerFire
  \/ ProcExit
  \/ ProcClose
  \/ Tick

Spec == Init /\ [][Next]_vars

\* ------------------------------------------------------- stream parsers
\* QwenStreamParser, CodexStreamParser and GeminiStreamParser over texts of
\* a small alphabet: newline, space, the braces of a JSON object, "k" (inside
\* braces: a "type" the parser recognises), "u" (inside braces: a "type" no
\* parser recognises) and "1" (a digit; a run of digits is a JSON number).
Alphabet == {"\n", " ", "{", "}", "k", "u", "1"}
MaxLen == 4
Texts == UNION {[1..n -> Alphabet] : n \in 0..MaxLen}
ParserKinds == {"qwen", "codex", "gemini"}

RECURSIVE trimStart(_)
trimStart(s) == IF s # <<>> /\ Head(s) = " " THEN trimStart(Tail(s)) ELSE s

RECURSIVE trimEnd(_)
trimEnd(s) ==
  IF s # <<>> /\ s[Len(s)] = " " THEN trimEnd(SubSeq(s, 1, Len(s) - 1)) ELSE s

\* String.prototype.trim
trim(s) == trimEnd(trimStart(s))

\* String.prototype.split("\n"): always at least one segment.
RECURSIVE split(_)
split(s) ==
  IF \A i \in 1..Len(s) : s[i] # "\n"
    THEN <<s>>
    ELSE LET i == CHOOSE i \in 1..Len(s) :
                    s[i] = "\n" /\ \A j \in 1..(i - 1) : s[j] # "\n"
         IN <<SubSeq(s, 1, i - 1)>> \o split(SubSeq(s, i + 1, Len(s)))

\* JSON.parse: ok is FALSE where it throws.  Whitespace around the value and
\* inside the braces is insignificant.
JSONparse(line) ==
  LET t == trim(line)
      fail == [ok |-> FALSE, isObject |-> FALSE, type |-> "none"]
  IN IF t # <<>> /\ \A i \in 1..Len(t) : t[i] = "1"
       THEN [ok |-> TRUE, isObject |-> FALSE, type |-> "none"]
       ELSE IF Len(t) >= 2 /\ t[1] = "{" /\ t[Len(t)] = "}"
              THEN LET inner == trim(SubSeq(t, 2, Len(t) - 1))
                   IN IF inner = <<>>
                        THEN [ok |-> TRUE, isObject |-> TRUE, type |-> "none"]
                        ELSE IF inner \in {<<"k">>, <<"u">>}
                               THEN [ok |-> TRUE, isObject |-> TRUE, type |-> inner[1]]
                               ELSE fail
              ELSE fail

\* JSON.stringify of a parsed object: no insignificant whitespace.
JSONstringify(json) ==
  IF json.type = "none" THEN <<"{", "}">> ELSE <<"{", json.type, "}">>

rawText(text) == [kind |-> "raw_text", text |-> text]
knownEvent == [kind |-> "known", text |-> <<>>]

\* Qwen / Codex normalizeEvent: the default branch of the switch on type.
normalizeEvent(json) ==
  IF json.type = "k" THEN knownEvent ELSE rawText(JSONstringify(json))

\* Gemini parseLine(data): null (no event) for a non-object and for a type
\* it does not handle.
geminiParseLine(json) ==
  IF ~json.isObject THEN <<>>
  ELSE IF json.type = "k" THEN <<knownEvent>> ELSE <<>>

\* The events one line gives: Qwen / Codex parseLine on the trimmed line,
\* Gemini's try { JSON.parse(line) } catch on the line as it is.
parseLine(k, line) ==
  LET json == JSONparse(line)
  IN IF k = "gemini"
       THEN IF json.ok THEN geminiParseLine(json) ELSE <<rawText(line)>>
       ELSE IF ~json.ok \/ ~json.isObject
              THEN <<rawText(line)>>
              ELSE <<normalizeEvent(json)>>

\* The loop body of feed for one complete line.
lineEvents(k, line) ==
  IF trim(line) = <<>> THEN <<>>
  ELSE IF k = "gemini" THEN parseLine(k, line) ELSE parseLine(k, trim(line))

RECURSIVE linesEvents(_, _)
linesEvents(k, lines) ==
  IF lines = <<>> THEN <<>>
  ELSE lineEvents(k, Head(lines)) \o linesEvents(k, Tail(lines))

\* feed as it would be if it did not keep the unfinished last line.
feed_dropsPartial(k, buffer, chunk) ==
  [buffer |-> <<>>, events |-> linesEvents(k, split(buffer \o chunk))]

feed(k, buffer, chunk) ==
  LET lines == split(buffer \o chunk)
  IN [buffer |-> lines[Len(lines)],
      events |-> linesEvents(k, SubSeq(lines, 1, Len(lines) - 1))]

\* flush as it would be if it did not clear the buffer.
flush_keepsBuffer(k, buffer) ==
  [buffer |-> buffer,
   events |-> IF trim(buffer) = <<>> THEN <<>>
              ELSE IF k = "gemini" THEN parseLine(k, buffer)
              ELSE parseLine(k, trim(buffer))]

flush(k, buffer) ==
  [buffer |-> <<>>,
   events |-> IF trim(buffer) = <<>> THEN <<>>
              ELSE IF k = "gemini" THEN parseLine(k, buffer)
              ELSE parseLine(k, trim(buffer))]

NoCfg == [runner |-> "none", signal |-> FALSE, onUpdate |-> FALSE]

\* A parser is created and is going to be fed the text `input` in chunks.
ParserInit ==
  /\ cfg = NoCfg
  /\ now = 0
  /\ r = [phase |-> "none"]
  /\ content = NoContent
  /\ parser \in {[kind |-> k, input |-> s, rest |-> s, buffer |-> <<>>,
                  events |-> <<>>, flushed |-> FALSE, splits |-> 0] :
                 k \in ParserKinds, s \in Texts}

\* feed(chunk) with the next n characters of the text (n = 0: an empty chunk).
\* splits counts the chunks that ended inside a line.
Feed ==
  /\ parser.kind # "none"
  /\ ~parser.flushed
  /\ \E n \in 0..Len(parser.rest) :
       LET f == feed(parser.kind, parser.buffer, SubSeq(parser.rest, 1, n))
       IN parser' = [parser EXCEPT
            !.rest = SubSeq(parser.rest, n + 1, Len(parser.rest)),
            !.buffer = f.buffer,
            !.events = @ \o f.events,
            !.splits = IF n > 0 /\ n < Len(parser.rest) /\ f.buffer # <<>>
                         THEN @ + 1 ELSE @]
  /\ UNCHANGED <<cfg, now, r, content>>

\* flush(), once, after the whole text has been fed.
Flush ==
  /\ parser.kind # "none"
  /\ ~parser.flushed
  /\ parser.rest = <<>>
  /\ LET f == flush(parser.kind, parser.buffer)
     IN parser' = [parser EXCEPT !.buffer = f.buffer,
                                 !.events = @ \o f.events,
                                 !.flushed = TRUE]
  /\ UNCHANGED <<cfg, now, r, content>>

ParserNext ==
  \/ Feed
  \/ Flush

ParserSpec == ParserInit /\ [][ParserNext]_vars

\* The complete lines of a text (those terminated by a newline) that are not
\* blank, in order.
CompleteLines(s) ==
  LET lines == split(s)
  IN SelectSeq(SubSeq(lines, 1, Len(lines) - 1), LAMBDA l : trim(l) # <<>>)

\* ---------------------------------------------------- RunState contents
\* What handleEvents and the stderr handlers keep in RunState: the
\* invocation list (toolCalls / commands), stderrTail, the session/thread
\* id and the error message.  Invocations and stderr lines are identified by
\* numbers in the order in which they first occur.
MAX_TOOL_CALLS == 80
MAX_STDERR_LINES == 20
\* Pushes onto the invocation list that are followed.
MaxStarts == 90
\* Invocation events that reuse the id or the command of an earlier
\* invocation and change the list.
MaxRestarts == 2
\* Qwen / Gemini tool_result events.
MaxResults == 2
\* Entries pushed onto stderrTail that are followed.
MaxLines == 23
\* Complete lines one stderr chunk can carry.
MaxChunkLines == 2

SessionIds == {"", "s1", "s2"}
ErrorMessages == {"e1", "e2"}

\* The last n elements of a sequence.
LastN(seq, n) ==
  IF Len(seq) > n THEN SubSeq(seq, Len(seq) - n + 1, Len(seq)) ELSE seq

\* The numbers lo, lo+1, ..., hi as a sequence.
Range(lo, hi) == [i \in 1..(hi - lo + 1) |-> lo + i - 1]

ContentInitRecord(k) ==
  [ runner       |-> k,
    toolCalls    |-> <<>>,       \* records [id, command, status, ends, closedBy]
    results      |-> 0,          \* tool_result events so far
    pushed       |-> <<>>,       \* ids in the order they were pushed
    nextId       |-> 1,
    restarts     |-> 0,
    stderrTail   |-> <<>>,
    stderrPushed |-> <<>>,       \* lines in the order they were pushed
    nextLine     |-> 1,
    stderrBuffer |-> FALSE,      \* an unfinished, non-blank line is buffered
    closed       |-> FALSE,
    sessionId    |-> "unset",    \* sessionId / threadId; "unset" is undefined
    firstSession |-> "none",     \* first non-empty id seen in the stream
    error        |-> "none",
    snapshot     |-> [taken |-> FALSE],  \* an object handed to onUpdate
    seen         |-> [taken |-> FALSE] ] \* what it showed when it was handed over

\* if (length > MAX) splice(0, length - MAX), as it would be if it cut the
\* newest entries instead of the oldest.
capList_keepsOldest(seq, max) ==
  IF Len(seq) > max THEN SubSeq(seq, 1, max) ELSE seq

\* if (length > MAX) splice(0, length - MAX)
capList(seq, max) ==
  IF Len(seq) > max THEN SubSeq(seq, Len(seq) - max + 1, Len(seq)) ELSE seq

\* The index of the first record with this id or, when byCommand, with this
\* command and status "running"; 0 if none (Array.find).
FindFirst(seq, key, byCommand) ==
  LET Test(t) == IF byCommand THEN t.command = key /\ t.status = "running"
                              ELSE t.id = key
  IN IF \E i \in 1..Len(seq) : Test(seq[i])
       THEN CHOOSE i \in 1..Len(seq) :
              Test(seq[i]) /\ \A j \in 1..(i - 1) : ~Test(seq[j])
       ELSE 0

\* A new record: id is the id of the event that creates it (a Codex record
\* stores only the command), ends counts the writes to endedAt and closedBy
\* is the id of the event that wrote it last.
pushInvocation(c, id, command, status) ==
  [c EXCEPT !.toolCalls = capList(Append(@, [id |-> id, command |-> command,
                                             status |-> status, ends |-> 0,
                                             closedBy |-> 0]),
                                  MAX_TOOL_CALLS),
            !.pushed = Append(@, id)]

\* Qwen / Gemini addToolCall: a known id only has its input replaced.
addToolCall(c, id) ==
  IF FindFirst(c.toolCalls, id, FALSE) # 0
    THEN c
    ELSE pushInvocation(c, id, id, "running")

\* Qwen / Gemini handleEvents, case "tool_result".
toolResult(c, id) ==
  LET i == FindFirst(c.toolCalls, id, FALSE)
  IN IF i # 0
       THEN [c EXCEPT !.toolCalls[i].ends = @ + 1,
                      !.toolCalls[i].closedBy = id]
       ELSE c

\* Codex handleEvents, case "command_execution": the first record with the
\* same command that is still running is updated, otherwise one is pushed.
commandExecution(c, id, command, status) ==
  LET i == FindFirst(c.toolCalls, command, TRUE)
  IN IF i # 0
       THEN [c EXCEPT !.toolCalls[i].status = status,
                      !.toolCalls[i].ends = @ + 1,
                      !.toolCalls[i].closedBy = id]
       ELSE pushInvocation(c, id, command, status)

\* Pushing onto stderrTail as it would be without the length check.
pushStderr_noCap(c, n) ==
  [c EXCEPT !.stderrTail = @ \o Range(c.nextLine, c.nextLine + n - 1),
            !.stderrPushed = @ \o Range(c.nextLine, c.nextLine + n - 1),
            !.nextLine = @ + n]

\* state.stderrTail.push(...lines) followed by the length check.
pushStderr(c, n) ==
  [c EXCEPT !.stderrTail = capList(@ \o Range(c.nextLine, c.nextLine + n - 1),
                                   MAX_STDERR_LINES),
            !.stderrPushed = @ \o Range(c.nextLine, c.nextLine + n - 1),
            !.nextLine = @ + n]

\* proc.stderr.on("data") for a chunk with n retained complete lines (blank
\* lines and, in Gemini, noise lines are not retained) that ends inside a
\* non-blank line iff partial.  Qwen and Gemini buffer the unfinished line;
\* Codex pushes every piece of the chunk.
stderrData(c, n, partial) ==
  IF c.runner = "codex"
    THEN pushStderr(c, n + (IF partial THEN 1 ELSE 0))
    ELSE [(IF n > 0 THEN pushStderr(c, n) ELSE c)
            EXCEPT !.stderrBuffer = IF n > 0 THEN partial ELSE (@ \/ partial)]

\* The stderr part of the 'close' handler.
stderrClose(c) ==
  IF c.runner # "codex" /\ c.stderrBuffer
    THEN [pushStderr(c, 1) EXCEPT !.stderrBuffer = FALSE, !.closed = TRUE]
    ELSE [c EXCEPT !.stderrBuffer = FALSE, !.closed = TRUE]

\* handleEvents, case "system" (Qwen, Gemini) / "thread_started" (Codex).
sessionEvent(c, sid) ==
  LET c1 == [c EXCEPT !.firstSession = IF @ = "none" /\ sid # "" THEN sid ELSE @]
  IN IF c.runner = "codex"
       THEN [c1 EXCEPT !.sessionId = sid]
     ELSE IF c.runner = "qwen"
       THEN IF sid # "" THEN [c1 EXCEPT !.sessionId = sid] ELSE c1
     ELSE IF sid # "" /\ c.sessionId = "unset"
       THEN [c1 EXCEPT !.sessionId = sid]
       ELSE c1

\* handleEvents, case "error".
errorEvent(c, message) == [c EXCEPT !.error = message]

\* { ...state }: the scalar fields are copied, the two lists are copied
\* as references to the arrays RunState holds (a list field of the snapshot is
\* the name of the RunState array it refers to).
spread(c) ==
  [taken |-> TRUE, sessionId |-> c.sessionId, error |-> c.error,
   toolCalls |-> "state.toolCalls", stderrTail |-> "state.stderrTail"]

\* What reading the fields of a snapshot object gives in state c.
view(c, snap) ==
  [taken |-> TRUE, sessionId |-> snap.sessionId, error |-> snap.error,
   toolCalls |-> IF snap.toolCalls = "state.toolCalls" THEN c.toolCalls ELSE <<>>,
   stderrTail |-> IF snap.stderrTail = "state.stderrTail" THEN c.stderrTail ELSE <<>>]

\* onUpdate?.({ ...state })
onUpdate(c) ==
  LET snap == spread(c)
  IN [c EXCEPT !.snapshot = snap, !.seen = view(c, snap)]

ContentInit ==
  /\ cfg = NoCfg
  /\ now = 0
  /\ r = [phase |-> "none"]
  /\ parser = NoParser
  /\ content \in {ContentInitRecord(k) : k \in Runners}

\* An invocation start with an id never seen before.
ToolStart ==
  /\ content.runner # "none"
  /\ Len(content.pushed) < MaxStarts
  /\ content' = [(IF content.runner = "codex"
                    THEN commandExecution(content, content.nextId, content.nextId,
                                          "running")
                    ELSE addToolCall(content, content.nextId))
                 EXCEPT !.nextId = @ + 1]
  /\ UNCHANGED <<cfg, now, r, parser>>

\* An invocation event that carries the id of the first invocation again
\* (for Codex: the same item and command, reported as running or as
\* completed).
ToolRepeat ==
  /\ content.runner # "none"
  /\ content.pushed # <<>>
  /\ Len(content.pushed) < MaxStarts
  /\ \E status \in IF content.runner = "codex" THEN {"running", "completed"}
                                               ELSE {"running"} :
       LET c1 == IF content.runner = "codex"
                   THEN commandExecution(content, 1, 1, status)
                   ELSE addToolCall(content, 1)
           changes == c1.toolCalls # content.toolCalls
       IN /\ changes => content.restarts < MaxRestarts
          /\ content' = [c1 EXCEPT !.restarts = IF changes THEN @ + 1 ELSE @]
  /\ UNCHANGED <<cfg, now, r, parser>>

\* Codex: a command_execution event of a new item that runs the command of
\* the first invocation again.
ToolSameCommand ==
  /\ content.runner = "codex"
  /\ content.pushed # <<>>
  /\ Len(content.pushed) < MaxStarts
  /\ content.restarts < MaxRestarts
  /\ \E status \in {"running", "completed"} :
       content' = [commandExecution(content, content.nextId, 1, status)
                     EXCEPT !.nextId = @ + 1, !.restarts = @ + 1]
  /\ UNCHANGED <<cfg, now, r, parser>>

\* Qwen / Gemini: a tool_result event for the first or second invocation or
\* for an id no invocation has (0).
ToolResult ==
  /\ content.runner \in {"qwen", "gemini"}
  /\ content.results < MaxResults
  /\ \E id \in {0, 1, 2} :
       content' = [toolResult(content, id) EXCEPT !.results = @ + 1]
  /\ UNCHANGED <<cfg, now, r, parser>>

InvocationNext ==
  \/ ToolStart
  \/ ToolRepeat

InvocationSpec == ContentInit /\ [][InvocationNext]_vars

\* Results are followed over the first MaxOpen invocations of a run.
MaxOpen == 4

FirstStarts ==
  /\ Len(content.pushed) < MaxOpen
  /\ \/ ToolStart
     \/ ToolRepeat
     \/ ToolSameCommand

ResultNext ==
  \/ FirstStarts
  \/ ToolResult

ResultSpec == ContentInit /\ [][ResultNext]_vars

StderrChunk ==
  /\ content.runner # "none"
  /\ ~content.closed
  /\ \E n \in 0..MaxChunkLines : \E partial \in BOOLEAN :
       /\ content.nextLine + n <= MaxLines
       /\ content' = stderrData(content, n, partial)
  /\ UNCHANGED <<cfg, now, r, parser>>

\* Codex handleEvents, case "raw_text": the text goes to stderrTail.
RawTextEvent ==
  /\ content.runner = "codex"
  /\ ~content.closed
  /\ content.nextLine + 1 <= MaxLines
  /\ content' = pushStderr(content, 1)
  /\ UNCHANGED <<cfg, now, r, parser>>

StderrClose ==
  /\ content.runner # "none"
  /\ ~content.closed
  /\ content.nextLine + 1 <= MaxLines
  /\ content' = stderrClose(content)
  /\ UNCHANGED <<cfg, now, r, parser>>

SessionEvent ==
  /\ content.runner # "none"
  /\ ~content.closed
  /\ \E sid \in SessionIds : content' = sessionEvent(content, sid)
  /\ UNCHANGED <<cfg, now, r, parser>>

ErrorEvent ==
  /\ content.runner # "none"
  /\ ~content.closed
  /\ \E message \in ErrorMessages : content' = errorEvent(content, message)
  /\ UNCHANGED <<cfg, now, r, parser>>

\* An emission (throttled, deferred or forced); the caller keeps the
\* snapshot object of one of them.
Emit ==
  /\ content.runner # "none"
  /\ ~content.closed
  /\ ~content.snapshot.taken
  /\ content' = onUpdate(content)
  /\ UNCHANGED <<cfg, now, r, parser>>

ContentNext ==
  \/ Emit
  \/ StderrChunk
  \/ RawTextEvent
  \/ StderrClose
  \/ SessionEvent
  \/ ErrorEvent

ContentSpec == ContentInit /\ [][ContentNext]_vars

\* ------------------------------------------------------ stderr as text
\* The stderr handlers over texts of a small alphabet: newline, space, "a"
\* (any other character) and "n" (a line containing it matches one of
\* Gemini's STDERR_FILTER_PATTERNS).
ErrAlphabet == {"\n", " ", "a", "n"}
MaxErrLen == 4
ErrTexts == UNION {[1..n -> ErrAlphabet] : n \in 0..MaxErrLen}

\* STDERR_FILTER_PATTERNS.some((pattern) => pattern.test(line))
isNoise(line) == \E i \in 1..Len(line) : line[i] = "n"

\* lines.filter(Boolean), and for Gemini the noise filter after it.
retained(k, lines) ==
  SelectSeq(lines, LAMBDA l : l # <<>> /\ (k = "gemini" => ~isNoise(l)))

\* proc.stderr.on("data"): Qwen and Gemini keep the unfinished last line in
\* stderrBuffer, Codex splits every chunk on its own.
stderrOnData(k, st, chunk) ==
  IF k = "codex"
    THEN [st EXCEPT !.stderrTail =
            capList(@ \o retained(k, split(chunk)), MAX_STDERR_LINES)]
    ELSE LET lines == split(st.stderrBuffer \o chunk)
         IN [st EXCEPT !.stderrBuffer = lines[Len(lines)],
                       !.stderrTail =
                         capList(@ \o retained(k, SubSeq(lines, 1, Len(lines) - 1)),
                                 MAX_STDERR_LINES)]

\* The stderr part of the 'close' handler: Qwen and Gemini push the trimmed
\* rest of the buffer (Gemini without the noise filter), Codex has no buffer.
stderrOnClose(k, st) ==
  IF k = "codex" \/ trim(st.stderrBuffer) = <<>>
    THEN [st EXCEPT !.stderrBuffer = <<>>]
    ELSE [st EXCEPT !.stderrBuffer = <<>>,
                    !.stderrTail = capList(Append(@, trim(st.stderrBuffer)),
                                           MAX_STDERR_LINES)]

\* A run whose process is going to write the text `input` to stderr.
StderrInit ==
  /\ cfg = NoCfg
  /\ now = 0
  /\ r = [phase |-> "none"]
  /\ parser = NoParser
  /\ content \in {[runner |-> k, input |-> t, rest |-> t, stderrBuffer |-> <<>>,
                   stderrTail |-> <<>>, closed |-> FALSE, splits |-> 0] :
                  k \in Runners, t \in ErrTexts}

\* A stderr chunk with the next n characters of the text (n >= 1: Node
\* delivers no empty chunks).  splits counts the chunks that ended inside a
\* line.
StderrFeed ==
  /\ content.runner # "none"
  /\ ~content.closed
  /\ \E n \in 1..Len(content.rest) :
       LET chunk == SubSeq(content.rest, 1, n)
           st == stderrOnData(content.runner, content, chunk)
       IN content' = [st EXCEPT
            !.rest = SubSeq(content.rest, n + 1, Len(content.rest)),
            !.splits = IF n < Len(content.rest) /\ chunk[n] # "\n"
                         THEN @ + 1 ELSE @]
  /\ UNCHANGED <<cfg, now, r, parser>>

\* 'close', after the whole text has been delivered.
StderrEnd ==
  /\ content.runner # "none"
  /\ ~content.closed
  /\ content.rest = <<>>
  /\ content' = [stderrOnClose(content.runner, content) EXCEPT !.closed = TRUE]
  /\ UNCHANGED <<cfg, now, r, parser>>

StderrNext ==
  \/ StderrFeed
  \/ StderrEnd

StderrSpec == StderrInit /\ [][StderrNext]_vars

\* ------------------------------------------------------------ transcript
\* lastAssistantMessage under the assistant events of a stream.  A text is a
\* sequence of characters; the empty text is what `if (event.text)` rejects.
MaxTextLen == 1
MaxEvents == 4
EventTexts == UNION {[1..n -> {"a", "b"}] : n \in 0..MaxTextLen}
TranscriptKinds == {"assistant_delta", "assistant_message", "result"}

\* The texts the runner's parser can put into an event of this kind: Qwen
\* emits assistant_delta only with a non-empty text, Gemini's result event
\* always has the text "", Codex has agent_message events only.
eventTexts(k, kind) ==
  IF k = "codex"
    THEN IF kind = "assistant_message" THEN EventTexts ELSE {}
  ELSE IF k = "qwen" /\ kind = "assistant_delta" THEN EventTexts \ {<<>>}
  ELSE IF k = "gemini" /\ kind = "result" THEN {<<>>}
  ELSE EventTexts

\* handleEvents for one assistant event, as it would be if Gemini's
\* assistant_delta replaced the accumulated text.
assistantEvent_deltaReplaces(c, kind, text) ==
  IF kind = "assistant_delta"
    THEN [c EXCEPT !.accumulatedAssistantMessage = text,
                   !.lastAssistantMessage = text]
  ELSE IF kind = "assistant_message"
    THEN IF text # <<>>
           THEN [c EXCEPT !.accumulatedAssistantMessage = text,
                          !.lastAssistantMessage = text]
           ELSE c
  ELSE IF text # <<>> THEN [c EXCEPT !.lastAssistantMessage = text] ELSE c

\* handleEvents for one assistant event (assistant_delta, assistant_message
\* or Codex agent_message, result).  accumulatedAssistantMessage exists in
\* the Gemini runner only.
assistantEvent(c, kind, text) ==
  IF kind = "assistant_delta"
    THEN IF c.runner = "gemini"
           THEN [c EXCEPT !.accumulatedAssistantMessage = @ \o text,
                          !.lastAssistantMessage = c.accumulatedAssistantMessage \o text]
           ELSE [c EXCEPT !.lastAssistantMessage = text]
  ELSE IF kind = "assistant_message"
    THEN IF text # <<>>
           THEN [c EXCEPT !.accumulatedAssistantMessage =
                            IF c.runner = "gemini" THEN text ELSE @,
                          !.lastAssistantMessage = text]
           ELSE c
  ELSE IF text # <<>> THEN [c EXCEPT !.lastAssistantMessage = text] ELSE c

\* Concatenation of a sequence of texts.
RECURSIVE Concat(_)
Concat(texts) == IF texts = <<>> THEN <<>> ELSE Head(texts) \o Concat(Tail(texts))

TranscriptInit ==
  /\ cfg = NoCfg
  /\ now = 0
  /\ r = [phase |-> "none"]
  /\ parser = NoParser
  /\ content \in {[runner |-> k,
                   lastAssistantMessage |-> <<>>,
                   accumulatedAssistantMessage |-> <<>>,
                   lastKind |-> "none",     \* kind of the last event
                   lastText |-> <<>>,       \* its text
                   base |-> <<>>,           \* transcript when the deltas began
                   deltas |-> <<>>,         \* the deltas since then
                   events |-> 0] : k \in Runners}

\* One assistant event of the stream is handled.
AssistantEvent ==
  /\ content.runner # "none"
  /\ content.events < MaxEvents
  /\ \E kind \in TranscriptKinds : \E text \in eventTexts(content.runner, kind) :
       content' = [assistantEvent(content, kind, text) EXCEPT
                     !.lastKind = kind,
                     !.lastText = text,
                     !.base = IF kind = "assistant_delta" /\ content.lastKind # kind
                                THEN content.lastAssistantMessage ELSE @,
                     !.deltas = IF kind # "assistant_delta" THEN <<>>
                                ELSE IF content.lastKind # kind THEN <<text>>
                                ELSE Append(@, text),
                     !.events = @ + 1]
  /\ UNCHANGED <<cfg, now, r, parser>>

TranscriptNext ==
  \/ AssistantEvent

TranscriptSpec == TranscriptInit /\ [][TranscriptNext]_vars

\* ------------------------------------------------------- stash extension
\* The closure of the stash extension (stashedText, pendingRestore,
\* isRestoreInProgress) and the editor.  A text is [id, nl]: which typed text
\* it is and how many newlines follow it; NoText stands for null in the
\* closure variables and for "" in the editor.  A stashed text also carries
\* the number of the stash operation that stored it.
MaxTexts == 2
MaxStashes == 3
NoText == [id |-> 0, nl |-> 0, n |-> 0]

StashInitRecord(ui) ==
  [ runner              |-> "none",
    kind                |-> "stash",
    hasUI               |-> ui,
    stashedText         |-> NoText,
    pendingRestore      |-> NoText,
    isRestoreInProgress |-> FALSE,
    editor              |-> NoText,
    nextId              |-> 1,        \* next typed text
    stashes             |-> 0,        \* stash operations so far
    restored            |-> <<>>,     \* stash numbers restored to the editor
    lastEvent           |-> "none",
    restoring           |-> NoText ]  \* pendingRestore when agent_end began

\* stashContent, the /stash command handler: the editor text (which is not
\* blank) is stored as it is.
stashContent(c) ==
  IF ~c.hasUI \/ c.editor.id = 0
    THEN c
    ELSE [c EXCEPT !.stashedText = [c.editor EXCEPT !.n = c.stashes + 1],
                   !.stashes = @ + 1,
                   !.editor = NoText]

\* pi.on("input") for a text that ends with /stash; id = 0 is a text with
\* nothing before the command.  The text is stored trimmed.
inputStash(c, id) ==
  IF id = 0
    THEN c
    ELSE [c EXCEPT !.stashedText = [id |-> id, nl |-> 0, n |-> c.stashes + 1],
                   !.stashes = @ + 1,
                   !.editor = IF c.hasUI THEN NoText ELSE @]

\* pi.on("input") for any other text, as it would be without the
\* `!isRestoreInProgress` test.
inputPrompt_noGuard(c) ==
  IF c.stashedText # NoText
    THEN [c EXCEPT !.pendingRestore = c.stashedText,
                   !.stashedText = NoText,
                   !.isRestoreInProgress = TRUE]
    ELSE c

\* pi.on("input") for any other text.
inputPrompt(c) ==
  IF c.stashedText # NoText /\ ~c.isRestoreInProgress
    THEN [c EXCEPT !.pendingRestore = c.stashedText,
                   !.stashedText = NoText,
                   !.isRestoreInProgress = TRUE]
    ELSE c

\* pi.on("agent_end") as it would be if it left pendingRestore set.
agentEnd_keepsPending(c) ==
  IF c.pendingRestore # NoText /\ c.hasUI
    THEN [c EXCEPT !.isRestoreInProgress = FALSE,
                   !.editor = [c.pendingRestore EXCEPT !.nl = @ + 2, !.n = 0],
                   !.restored = Append(@, c.pendingRestore.n)]
  ELSE IF c.pendingRestore # NoText
    THEN [c EXCEPT !.pendingRestore = NoText, !.isRestoreInProgress = FALSE]
  ELSE c

\* pi.on("agent_end")
agentEnd(c) ==
  IF c.pendingRestore # NoText /\ c.hasUI
    THEN [c EXCEPT !.pendingRestore = NoText,
                   !.isRestoreInProgress = FALSE,
                   !.editor = [c.pendingRestore EXCEPT !.nl = @ + 2, !.n = 0],
                   !.restored = Append(@, c.pendingRestore.n)]
  ELSE IF c.pendingRestore # NoText
    THEN [c EXCEPT !.pendingRestore = NoText, !.isRestoreInProgress = FALSE]
  ELSE c

StashInit ==
  /\ cfg = NoCfg
  /\ now = 0
  /\ r = [phase |-> "none"]
  /\ parser = NoParser
  /\ content \in {StashInitRecord(ui) : ui \in BOOLEAN}

\* The user types a new text into the editor.
Type ==
  /\ content.runner = "none" /\ content.kind = "stash"
  /\ content.hasUI
  /\ content.nextId <= MaxTexts
  /\ content' = [content EXCEPT !.editor = [id |-> content.nextId, nl |-> 0, n |-> 0],
                                !.nextId = @ + 1,
                                !.lastEvent = "type"]
  /\ UNCHANGED <<cfg, now, r, parser>>

\* The user runs the /stash command.
StashCommand ==
  /\ content.runner = "none" /\ content.kind = "stash"
  /\ content.stashes < MaxStashes
  /\ content' = [stashContent(content) EXCEPT !.lastEvent = "stash"]
  /\ UNCHANGED <<cfg, now, r, parser>>

\* The user submits a text that ends with /stash.
InputStash ==
  /\ content.runner = "none" /\ content.kind = "stash"
  /\ content.stashes < MaxStashes
  /\ \E id \in {0, content.nextId} :
       /\ id <= MaxTexts
       /\ content' = [inputStash(content, id) EXCEPT
                        !.nextId = IF id = 0 THEN @ ELSE @ + 1,
                        !.lastEvent = "stash"]
  /\ UNCHANGED <<cfg, now, r, parser>>

\* The user submits a prompt.
InputPrompt ==
  /\ content.runner = "none" /\ content.kind = "stash"
  /\ content' = [inputPrompt(content) EXCEPT !.lastEvent = "prompt"]
  /\ UNCHANGED <<cfg, now, r, parser>>

\* The agent finishes a run.
AgentEnd ==
  /\ content.runner = "none" /\ content.kind = "stash"
  /\ content' = [agentEnd(content) EXCEPT !.lastEvent = "agent_end",
                                          !.restoring = content.pendingRestore]
  /\ UNCHANGED <<cfg, now, r, parser>>

StashNext ==
  \/ Type
  \/ StashCommand
  \/ InputStash
  \/ InputPrompt
  \/ AgentEnd

StashSpec == StashInit /\ [][StashNext]_vars

\* --------------------------------------------------------- ApiKeyManager
\* One ApiKeyManager: keys (indexed from 0 as in the code, each with its
\* failureCount and cooldownUntil), currentIndex, maxFailures and cooldownMs.
\* The clock is `now`; the constructor runs at time 1.
MaxKeys == 3
MaxFailuresConfig == 2
MaxFailureCount == 2
CooldownMs == 1
MaxTime == 2
StatusCodes == {401, 429, 500}

NoCall == [keys |-> <<>>, currentIndex |-> 0]

ManagerInitRecord(n, mf) ==
  [ runner       |-> "none",
    kind         |-> "keys",
    keys         |-> [i \in 0..(n - 1) |-> [failureCount |-> 0, cooldownUntil |-> 0]],
    currentIndex |-> 0,
    maxFailures  |-> mf,
    cooldownMs   |-> CooldownMs,
    lastOp       |-> "none",
    returned     |-> 0,                \* index of the key getNextKey returned
    before       |-> NoCall ]      \* keys and currentIndex at that call

\* now >= keyState.cooldownUntil && keyState.failureCount < this.maxFailures
available(m, keyState) ==
  now >= keyState.cooldownUntil /\ keyState.failureCount < m.maxFailures

\* The loop of getNextKey from offset i: the index it returns at, or -1.
RECURSIVE findHealthy(_, _)
findHealthy(m, i) ==
  LET n == Cardinality(DOMAIN m.keys)
      index == (m.currentIndex + i) % n
  IN IF i >= n THEN -1
     ELSE IF available(m, m.keys[index]) THEN index
     ELSE findHealthy(m, i + 1)

\* getNextKey as it would be if its scan started at index 0 every time.
getNextKey_scansFromZero(m) ==
  LET n == Cardinality(DOMAIN m.keys)
      index == findHealthy([m EXCEPT !.currentIndex = 0], 0)
  IN IF index # -1
       THEN [m EXCEPT !.currentIndex = (index + 1) % n,
                      !.returned = index]
       ELSE [m EXCEPT !.keys[0] = [failureCount |-> 0, cooldownUntil |-> 0],
                      !.currentIndex = 1 % n,
                      !.returned = 0]

\* getNextKey as it would be if it left currentIndex where it was.
getNextKey_noAdvance(m) ==
  LET n == Cardinality(DOMAIN m.keys)
      index == findHealthy(m, 0)
  IN IF index # -1
       THEN [m EXCEPT !.returned = index]
       ELSE [m EXCEPT !.keys[0] = [failureCount |-> 0, cooldownUntil |-> 0],
                      !.returned = 0]

getNextKey(m) ==
  LET n == Cardinality(DOMAIN m.keys)
      index == findHealthy(m, 0)
  IN IF index # -1
       THEN [m EXCEPT !.currentIndex = (index + 1) % n,
                      !.returned = index]
       ELSE [m EXCEPT !.keys[0] = [failureCount |-> 0, cooldownUntil |-> 0],
                      !.currentIndex = 1 % n,
                      !.returned = 0]

reportSuccess(m, i) ==
  [m EXCEPT !.keys[i] = [failureCount |-> 0, cooldownUntil |-> 0]]

reportFailure(m, i, statusCode) ==
  [m EXCEPT !.keys[i].failureCount = @ + 1,
            !.keys[i].cooldownUntil =
              IF statusCode \in {429, 401} THEN now + m.cooldownMs ELSE @]

\* new ApiKeyManager({ keys, maxFailures, cooldownMs }) with 1..MaxKeys
\* distinct keys.
ManagerInit ==
  /\ cfg = NoCfg
  /\ now = 1
  /\ r = [phase |-> "none"]
  /\ parser = NoParser
  /\ content \in {ManagerInitRecord(n, mf) : n \in 1..MaxKeys, mf \in 1..MaxFailuresConfig}

GetNextKey ==
  /\ content.runner = "none" /\ content.kind = "keys"
  /\ content' = [getNextKey(content) EXCEPT
                   !.lastOp = "getNextKey",
                   !.before = [keys |-> content.keys,
                               currentIndex |-> content.currentIndex]]
  /\ UNCHANGED <<cfg, now, r, parser>>

ReportSuccess ==
  /\ content.runner = "none" /\ content.kind = "keys"
  /\ \E i \in DOMAIN content.keys :
       content' = [reportSuccess(content, i) EXCEPT
                     !.lastOp = "other", !.returned = 0, !.before = NoCall]
  /\ UNCHANGED <<cfg, now, r, parser>>

ReportFailure ==
  /\ content.runner = "none" /\ content.kind = "keys"
  /\ \E i \in DOMAIN content.keys : \E statusCode \in StatusCodes :
       /\ content.keys[i].failureCount < MaxFailureCount
       /\ content' = [reportFailure(content, i, statusCode) EXCEPT
                        !.lastOp = "other", !.returned = 0, !.before = NoCall]
  /\ UNCHANGED <<cfg, now, r, parser>>

\* A millisecond passes.
ClockTick ==
  /\ content.runner = "none" /\ content.kind = "keys"
  /\ now < MaxTime
  /\ now' = now + 1
  /\ content' = [content EXCEPT !.lastOp = "other", !.returned = 0,
                                !.before = NoCall]
  /\ UNCHANGED <<cfg, r, parser>>

ManagerNext ==
  \/ GetNextKey
  \/ ReportSuccess
  \/ ReportFailure
  \/ ClockTick

ManagerSpec == ManagerInit /\ [][ManagerNext]_vars


\* --------------------------------------------------- librarian turn budget
\* createTurnBudgetExtension(maxTurns): the closure variable turnIndex and
\* what the last handler returned.  The librarian passes DEFAULT_MAX_TURNS.
DEFAULT_MAX_TURNS == 10
\* event.turnIndex ranges over 0..MaxTurnIndex.
MaxTurnIndex == 11

Min(a, b) == IF a < b THEN a ELSE b
Max(a, b) == IF a > b THEN a ELSE b

BudgetInitRecord(maxTurns) ==
  [ runner         |-> "none",
    kind           |-> "budget",
    maxTurns       |-> maxTurns,
    turnIndex      |-> 0,
    lastEvent      |-> "none",    \* turn_start | tool_call | tool_result
    block          |-> FALSE,     \* tool_call returned { block: true, ... }
    humanTurn      |-> 0,
    remainingAfter |-> 0 ]

\* pi.on("turn_start")
onTurnStart(c, eventTurnIndex) ==
  [c EXCEPT !.turnIndex = eventTurnIndex, !.lastEvent = "turn_start",
            !.block = FALSE, !.humanTurn = 0, !.remainingAfter = 0]

\* pi.on("tool_call") as it would be if it blocked one turn later.
onToolCall_oneTurnLater(c) ==
  IF c.turnIndex < c.maxTurns
    THEN [c EXCEPT !.lastEvent = "tool_call", !.block = FALSE,
                   !.humanTurn = 0, !.remainingAfter = 0]
    ELSE [c EXCEPT !.lastEvent = "tool_call", !.block = TRUE,
                   !.humanTurn = Min(c.turnIndex + 1, c.maxTurns),
                   !.remainingAfter = 0]

\* pi.on("tool_call")
onToolCall(c) ==
  IF c.turnIndex < c.maxTurns - 1
    THEN [c EXCEPT !.lastEvent = "tool_call", !.block = FALSE,
                   !.humanTurn = 0, !.remainingAfter = 0]
    ELSE [c EXCEPT !.lastEvent = "tool_call", !.block = TRUE,
                   !.humanTurn = Min(c.turnIndex + 1, c.maxTurns),
                   !.remainingAfter = 0]

\* pi.on("tool_result")
onToolResult(c) ==
  [c EXCEPT !.lastEvent = "tool_result", !.block = FALSE,
            !.humanTurn = Min(c.turnIndex + 1, c.maxTurns),
            !.remainingAfter = Max(0, c.maxTurns - (c.turnIndex + 1))]

BudgetInit ==
  /\ cfg = NoCfg
  /\ now = 0
  /\ r = [phase |-> "none"]
  /\ parser = NoParser
  /\ content \in {BudgetInitRecord(maxTurns) : maxTurns \in 1..DEFAULT_MAX_TURNS}

TurnStart ==
  /\ content.runner = "none" /\ content.kind = "budget"
  /\ \E eventTurnIndex \in 0..MaxTurnIndex :
       content' = onTurnStart(content, eventTurnIndex)
  /\ UNCHANGED <<cfg, now, r, parser>>

ToolCall ==
  /\ content.runner = "none" /\ content.kind = "budget"
  /\ content' = onToolCall(content)
  /\ UNCHANGED <<cfg, now, r, parser>>

BudgetToolResult ==
  /\ content.runner = "none" /\ content.kind = "budget"
  /\ content' = onToolResult(content)
  /\ UNCHANGED <<cfg, now, r, parser>>

BudgetNext ==
  \/ TurnStart
  \/ ToolCall
  \/ BudgetToolResult

BudgetSpec == BudgetInit /\ [][BudgetNext]_vars


\* ------------------------------------------------- parsers: feed and flush
\* One parser driven by any sequence of feed(chunk) and flush() calls:
\* its buffer, the last call, the chunk it was given and the events it
\* returned.
MaxFeedLen == 1
\* Chunks are fed while the buffer and the chunk together hold at most
\* MaxPending characters.
MaxPending == 4
FeedTexts == UNION {[1..n -> Alphabet] : n \in 0..MaxFeedLen}

FlushInit ==
  /\ cfg = NoCfg
  /\ now = 0
  /\ r = [phase |-> "none"]
  /\ content = NoContent
  /\ parser \in {[kind |-> k, calls |-> "any", buffer |-> <<>>, lastOp |-> "none",
                  chunk |-> <<>>, events |-> <<>>] : k \in ParserKinds}

\* parser.feed(chunk)
FeedChunk ==
  /\ parser.kind # "none" /\ parser.calls = "any"
  /\ \E chunk \in FeedTexts :
       /\ Len(parser.buffer) + Len(chunk) <= MaxPending
       /\ LET f == feed(parser.kind, parser.buffer, chunk)
          IN parser' = [parser EXCEPT !.buffer = f.buffer, !.lastOp = "feed",
                                      !.chunk = chunk, !.events = f.events]
  /\ UNCHANGED <<cfg, now, r, content>>

\* parser.flush()
FlushBuffer ==
  /\ parser.kind # "none" /\ parser.calls = "any"
  /\ LET f == flush(parser.kind, parser.buffer)
     IN parser' = [parser EXCEPT !.buffer = f.buffer, !.lastOp = "flush",
                                 !.chunk = <<>>, !.events = f.events]
  /\ UNCHANGED <<cfg, now, r, content>>

FlushNext ==
  \/ FeedChunk
  \/ FlushBuffer

FlushSpec == FlushInit /\ [][FlushNext]_vars


\* ----------------------------------------------------------- performSearch
\* One call of performSearch: the ApiKeyManager it creates (default
\* maxFailures; the default cooldown lasts CooldownMs clock ticks), the loop
\* of trySearch and the keys it has requested with.  The clock can advance
\* while a request is awaited.
DefaultMaxFailures == 3
\* response.ok, a non-ok response (with a status of StatusCodes), a thrown
\* Error (network), AbortError, or a thrown non-Error.
Outcomes == {"ok", "http", "network", "abort", "unexpected"}

SearchInitRecord(n) ==
  [ runner       |-> "none",
    kind         |-> "search",
    keys         |-> [i \in 0..(n - 1) |-> [failureCount |-> 0, cooldownUntil |-> 0]],
    currentIndex |-> 0,
    maxFailures  |-> DefaultMaxFailures,
    cooldownMs   |-> CooldownMs,
    returned     |-> 0,
    pc           |-> "loop",       \* loop | fetch | returned
    status       |-> "running",
    keysAttempted|-> 0,
    keysUsed     |-> 0,
    attempted    |-> <<>> ]        \* indices of the keys requested with

\* The value reportFailure returns: another key is available.
hasOtherKeys(m, i) ==
  \E j \in DOMAIN m.keys : j # i /\ available(m, m.keys[j])

\* A return statement of trySearch.
searchReturn(m, status) ==
  [m EXCEPT !.pc = "returned", !.status = status, !.keysUsed = m.keysAttempted]

\* The while condition of trySearch; when it fails: "All keys exhausted".
loopTest(m) ==
  IF m.keysAttempted < Cardinality(DOMAIN m.keys)
    THEN [m EXCEPT !.pc = "loop"]
    ELSE searchReturn(m, "error")

\* The loop body up to the fetch: getNextKey, keysAttempted++.
tryNextKey(m) ==
  LET m1 == getNextKey(m)
  IN [m1 EXCEPT !.pc = "fetch",
                !.keysAttempted = @ + 1,
                !.attempted = Append(@, m1.returned)]

\* The loop body after the fetch settled with `outcome`; statusCode is
\* response.status of a non-ok response (0: reportFailure gets no status).
afterFetch(m, outcome, statusCode) ==
  LET i == m.returned
  IN IF outcome = "ok" THEN searchReturn(reportSuccess(m, i), "done")
     ELSE IF outcome = "abort" THEN searchReturn(m, "aborted")
     ELSE IF outcome = "unexpected" THEN searchReturn(m, "error")
     ELSE LET m1 == reportFailure(m, i, IF outcome = "network" THEN 0 ELSE statusCode)
          IN IF hasOtherKeys(m1, i) THEN loopTest(m1) ELSE searchReturn(m1, "error")

SearchInit ==
  /\ cfg = NoCfg
  /\ now = 1
  /\ r = [phase |-> "none"]
  /\ parser = NoParser
  /\ content \in {SearchInitRecord(n) : n \in 1..MaxKeys}

TryNextKey ==
  /\ content.runner = "none" /\ content.kind = "search"
  /\ content.pc = "loop"
  /\ content' = tryNextKey(content)
  /\ UNCHANGED <<cfg, now, r, parser>>

FetchSettles ==
  /\ content.runner = "none" /\ content.kind = "search"
  /\ content.pc = "fetch"
  /\ \E outcome \in Outcomes : \E statusCode \in StatusCodes :
       content' = afterFetch(content, outcome, statusCode)
  /\ UNCHANGED <<cfg, now, r, parser>>

\* Time passes while the request is in flight.
FetchTakesTime ==
  /\ content.runner = "none" /\ content.kind = "search"
  /\ content.pc = "fetch"
  /\ now < MaxTime
  /\ now' = now + 1
  /\ UNCHANGED <<cfg, r, parser, content>>

SearchNext ==
  \/ TryNextKey
  \/ FetchSettles
  \/ FetchTakesTime

SearchSpec == SearchInit /\ [][SearchNext]_vars


\* ------------------------------------------- librarian: max-listeners bump
\* bumpDefaultEventTargetMaxListeners and the restore functions it returns,
\* shared by overlapping executions of the librarian tool: the global
\* { depth, savedDefault }, events.defaultMaxListeners, and the number of
\* executions that have bumped and not yet restored.  The environment
\* variable keeps its value for the life of the process.
DEFAULT_EVENTTARGET_MAX_LISTENERS == 100
\* At most MaxExecutions executions overlap; MaxBumps executions start.
MaxExecutions == 3
MaxBumps == 4
\* events.defaultMaxListeners before the first bump.
OriginalDefaults == {0, 10, 200}
\* process.env.PI_EVENTTARGET_MAX_LISTENERS ?? process.env.PI_ABORT_MAX_LISTENERS:
\* unset, not a number, or a number.
EnvValues ==
  {[defined |-> FALSE, finite |-> FALSE, value |-> 0],
   [defined |-> TRUE,  finite |-> FALSE, value |-> 0]}
    \cup {[defined |-> TRUE, finite |-> TRUE, value |-> v] : v \in {-1, 0, 50, 300}}

Undefined == [defined |-> FALSE, value |-> 0]

\* raw !== undefined ? Number(raw) : DEFAULT_EVENTTARGET_MAX_LISTENERS
desiredOf(raw) ==
  IF raw.defined
    THEN [finite |-> raw.finite, value |-> raw.value]
    ELSE [finite |-> TRUE, value |-> DEFAULT_EVENTTARGET_MAX_LISTENERS]

\* !Number.isFinite(desired) || desired < 0: the bump does nothing and
\* returns a function that does nothing.
bumpDisabled(c) ==
  LET desired == desiredOf(c.raw)
  IN ~desired.finite \/ desired.value < 0

ListenersInitRecord(original, raw) ==
  [ runner              |-> "none",
    kind                |-> "listeners",
    raw                 |-> raw,
    defaultMaxListeners |-> original,
    depth               |-> 0,
    savedDefault        |-> Undefined,
    outstanding         |-> 0,      \* restore functions returned and not yet called
    bumps               |-> 0,      \* executions started
    firstDefault        |-> original, \* events.defaultMaxListeners at the first
                                      \* bump of the current overlap
    lastOp              |-> "none" ]

\* bump as it would be if it saved the default at every call.
bumpDefaultEventTargetMaxListeners_savesAlways(c) ==
  LET desired == desiredOf(c.raw)
  IN IF bumpDisabled(c)
       THEN c
       ELSE [c EXCEPT !.savedDefault = [defined |-> TRUE, value |-> c.defaultMaxListeners],
                      !.depth = @ + 1,
                      !.defaultMaxListeners = IF @ < desired.value THEN desired.value ELSE @]

bumpDefaultEventTargetMaxListeners(c) ==
  LET desired == desiredOf(c.raw)
  IN IF bumpDisabled(c)
       THEN c
       ELSE [c EXCEPT !.savedDefault =
                        IF c.depth = 0
                          THEN [defined |-> TRUE, value |-> c.defaultMaxListeners]
                          ELSE @,
                      !.depth = @ + 1,
                      !.defaultMaxListeners = IF @ < desired.value THEN desired.value ELSE @]

\* The function bump returned.
restoreMaxListeners(c) ==
  IF bumpDisabled(c)
    THEN c
    ELSE LET depth == Max(0, c.depth - 1)
         IN IF depth # 0 \/ ~c.savedDefault.defined
              THEN [c EXCEPT !.depth = depth]
              ELSE [c EXCEPT !.depth = depth,
                             !.defaultMaxListeners = c.savedDefault.value,
                             !.savedDefault = Undefined]

ListenersInit ==
  /\ cfg = NoCfg
  /\ now = 0
  /\ r = [phase |-> "none"]
  /\ parser = NoParser
  /\ content \in {ListenersInitRecord(original, raw) :
                    original \in OriginalDefaults, raw \in EnvValues}

\* An execution of the librarian tool starts.
ExecuteStart ==
  /\ content.runner = "none" /\ content.kind = "listeners"
  /\ content.outstanding < MaxExecutions
  /\ content.bumps < MaxBumps
  /\ content' = [bumpDefaultEventTargetMaxListeners(content) EXCEPT
                   !.outstanding = @ + 1,
                   !.bumps = @ + 1,
                   !.firstDefault = IF content.outstanding = 0
                                      THEN content.defaultMaxListeners ELSE @,
                   !.lastOp = "bump"]
  /\ UNCHANGED <<cfg, now, r, parser>>

\* An execution reaches its finally block (in any order among the
\* outstanding ones: the restore functions differ in nothing).
ExecuteFinally ==
  /\ content.runner = "none" /\ content.kind = "listeners"
  /\ content.outstanding > 0
  /\ content' = [restoreMaxListeners(content) EXCEPT
                   !.outstanding = @ - 1,
                   !.lastOp = "restore"]
  /\ UNCHANGED <<cfg, now, r, parser>>

ListenersNext ==
  \/ ExecuteStart
  \/ ExecuteFinally

ListenersSpec == ListenersInit /\ [][ListenersNext]_vars

\* ----------------------------------------------------------------- claims

\* C1: if the cancellation signal fires while the run is active, the
\* RunState the promise resolves with has status 'aborted', whatever the
\* process does afterwards ('close' with any code, or 'error').
C1_AbortedWins ==
  (r.phase = "resolved" /\ r.abortedActive) => r.resolvedStatus = "aborted"

\* C2: status leaves 'running' once; once it is not 'running' no later
\* callback changes it to a different value.
C2_StatusNeverChangesAgain ==
  [][r.status # "running" => r'.status = r.status]_vars

\* C3: over any sequence of abort, 'close' and 'error' callbacks there is at
\* most one assignment to endedAt in a run.
C3_EndedAtAssignedOnce ==
  r.endedAtWrites <= 1

\* C4: in every state between callbacks and in every snapshot handed to
\* onUpdate, endedAt is set if and only if status is not 'running'.
C4_EndedAtIffTerminal ==
  /\ r.endedAtSet <=> r.status # "running"
  /\ \A sn \in r.snaps : sn.endedAtSet <=> sn.status # "running"

C4_Witness ==
  /\ r.status = "aborted"
  /\ r.endedAtSet
  /\ r.phase = "pending"
  /\ \E sn \in r.snaps : sn.status = "running" /\ ~sn.endedAtSet
  /\ \E sn \in r.snaps : sn.status = "aborted" /\ sn.endedAtSet

\* C5: onUpdate is never invoked after the run's promise has been resolved.
C5_NoUpdateAfterResolve ==
  ~r.updateAfterResolve

\* C6: a run given an onUpdate callback has, before its promise resolves,
\* invoked onUpdate with a snapshot carrying the status it resolves with,
\* on every resolution path (pre-aborted signal, 'close', 'error').
C6_TerminalEmissionBeforeResolve ==
  (r.phase = "resolved" /\ cfg.onUpdate)
    => \E sn \in r.snapsAtResolve : sn.status = r.resolvedStatus

\* C7: if the signal is already aborted when the run is invoked, no process
\* is spawned, no abort listener and no timer is registered, and the promise
\* resolves with status 'aborted' and endedAt set.
C7_PreAbortedShortCircuit ==
  r.invokedAborted =>
    /\ r.spawnCount = 0
    /\ r.proc = "none"
    /\ r.listenerAdds = 0
    /\ ~r.listener
    /\ ~r.updateTimerSet
    /\ ~r.killTimerSet
    /\ ~r.killTimerPending
    /\ r.phase = "resolved"
    /\ r.resolvedStatus = "aborted"
    /\ r.status = "aborted"
    /\ r.endedAtSet

C7_Witness ==
  /\ r.invokedAborted
  /\ r.phase = "resolved"
  /\ r.resolvedStatus = "aborted"
  /\ r.spawnCount = 0

C9_ForcefulKillThenAborted ==
  /\ (r.sigterm > 0 /\ r.proc = "running" /\ now > r.sigtermTime + KILL_GRACE_MS)
       => r.sigkill > 0
  /\ (r.sigkill > 0 /\ r.proc = "closed")
       => (r.phase = "resolved" /\ r.resolvedStatus = "aborted")

\* C10: once the run's promise has resolved, neither the throttle timer nor
\* the kill-escalation timer is pending.
C10_NoTimerPendingAfterResolve ==
  r.phase = "resolved" => (~r.updateTimerSet /\ ~r.killTimerPending)

\* C11: at most one abort listener is registered on the signal per run, and
\* once the run's promise has resolved (through 'close' or 'error') that
\* listener is no longer registered.
C11_ListenerRemovedOnResolve ==
  /\ r.listenerAdds <= 1
  /\ r.phase = "resolved" => ~r.listener

C11_Witness ==
  /\ r.phase = "resolved"
  /\ r.listenerAdds = 1
  /\ ~r.listener
  /\ ~r.aborted
  /\ r.error = "runtime"

\* C12: the cancellation signal firing after the promise has resolved
\* changes no RunState field, sends no signal, schedules no timer and does
\* not invoke onUpdate.
C12_AbortAfterResolveIsNoOp ==
  [][(r.phase = "resolved" /\ ~r.aborted /\ r'.aborted)
       => /\ r'.status = r.status
          /\ r'.endedAtSet = r.endedAtSet
          /\ r'.endedAtWrites = r.endedAtWrites
          /\ r'.error = r.error
          /\ r'.sigterm = r.sigterm
          /\ r'.sigkill = r.sigkill
          /\ r'.killTimerPending = r.killTimerPending
          /\ r'.killTimerSet = r.killTimerSet
          /\ r'.updateTimerSet = r.updateTimerSet
          /\ r'.snaps = r.snaps
          /\ r'.lastSnap = r.lastSnap
          /\ r'.updateAfterResolve = r.updateAfterResolve]_vars

C12_Witness ==
  /\ r.phase = "resolved"
  /\ r.aborted
  /\ ~r.abortedActive
  /\ ~r.invokedAborted
  /\ r.proc = "closed"
  /\ r.status = "done"

\* C13: feeding a text in any contiguous chunks (empty chunks and chunks
\* that end inside a line included) and then flushing yields the same event
\* sequence as feeding the text as one chunk and then flushing.
C13_ChunkingInvariance ==
  (parser.kind # "none" /\ parser.flushed) =>
    LET one == feed(parser.kind, <<>>, parser.input)
    IN parser.events = one.events \o flush(parser.kind, one.buffer).events

C13_Witness ==
  /\ parser.kind # "none"
  /\ parser.flushed
  /\ parser.splits >= 1
  /\ parser.input = <<"{", "u", "}", "\n">>
  /\ Len(parser.events) = 1

\* C14: every complete line that is not valid JSON, or is valid JSON but
\* not an object, yields exactly one raw_text event carrying that line's
\* text (compared up to surrounding whitespace; blank lines are not counted).
C14_NonObjectLinesBecomeRawText ==
  (/\ parser.kind # "none"
   /\ parser.rest = <<>>
   /\ ~parser.flushed
   /\ \A i \in 1..Len(CompleteLines(parser.input)) :
        ~JSONparse(CompleteLines(parser.input)[i]).isObject)
    => /\ Len(parser.events) = Len(CompleteLines(parser.input))
       /\ \A i \in 1..Len(parser.events) :
            /\ parser.events[i].kind = "raw_text"
            /\ trim(parser.events[i].text) = trim(CompleteLines(parser.input)[i])

\* C15: every line that parses as a JSON object whose type the parser does
\* not recognise yields exactly one raw_text event carrying the
\* re-serialized JSON.
C15_UnknownTypeBecomesRawText ==
  (/\ parser.kind # "none"
   /\ parser.rest = <<>>
   /\ ~parser.flushed
   /\ \A i \in 1..Len(CompleteLines(parser.input)) :
        /\ JSONparse(CompleteLines(parser.input)[i]).isObject
        /\ JSONparse(CompleteLines(parser.input)[i]).type # "k")
    => /\ Len(parser.events) = Len(CompleteLines(parser.input))
       /\ \A i \in 1..Len(parser.events) :
            /\ parser.events[i].kind = "raw_text"
            /\ parser.events[i].text
                 = JSONstringify(JSONparse(CompleteLines(parser.input)[i]))

C17_StderrTailBounded ==
  content.runner # "none" =>
    /\ Len(content.stderrTail) <= MAX_STDERR_LINES
    /\ content.stderrTail = LastN(content.stderrPushed, MAX_STDERR_LINES)

C17_Witness ==
  /\ content.runner # "none"
  /\ content.closed
  /\ Len(content.stderrPushed) > MAX_STDERR_LINES
  /\ Len(content.stderrTail) = MAX_STDERR_LINES
  /\ content.stderrTail[1] > 1

\* C18: once RunState.error holds a message, nothing later replaces it with
\* a different message.
C18_ErrorSetOnce ==
  [][(content.runner # "none" /\ content.error # "none")
       => content'.error = content.error]_vars

\* C19: the session/thread id is the first non-empty id observed in the
\* stream; a later id never replaces it and an empty id never sets or
\* clears it.
C19_SessionIdSetOnce ==
  content.runner # "none" =>
    content.sessionId = (IF content.firstSession = "none"
                           THEN "unset" ELSE content.firstSession)

\* C20: when the process closes with a non-zero exit code and no
\* cancellation occurred, the final status is 'error' and the error field
\* is the message of a structured error event if one was seen in the stream,
\* otherwise the generic exit-code message.
C20_NonZeroExitIsError ==
  (/\ r.phase # "none"
   /\ r.proc = "closed"
   /\ r.exitCode = "nonzero"
   /\ ~r.abortedActive
   /\ ~r.invokedAborted)
    => /\ r.status = "error"
       /\ r.resolvedStatus = "error"
       /\ r.error = IF r.streamErrorSeen THEN "stream" ELSE "exit"

C20_Witness ==
  /\ r.phase = "resolved"
  /\ r.proc = "closed"
  /\ r.exitCode = "nonzero"
  /\ ~r.aborted
  /\ r.streamErrorSeen
  /\ r.status = "error"
  /\ r.error = "stream"

\* C21: when the process emits 'error' (failed spawn, failed kill), the
\* promise resolves with status 'error', error equal to the runtime error's
\* message and endedAt set, and with an onUpdate callback a snapshot carrying
\* these was emitted before the promise resolved.
C21_ProcessErrorResolvesError ==
  r.processError =>
    /\ r.phase = "resolved"
    /\ r.resolvedStatus = "error"
    /\ r.resolvedError = "runtime"
    /\ r.resolvedEndedAt
    /\ cfg.onUpdate =>
         [status |-> "error", endedAtSet |-> TRUE, error |-> "runtime"]
           \in r.snapsAtResolve

C21_Witness ==
  /\ r.processError
  /\ r.exitCode = "enoent"
  /\ cfg.onUpdate
  /\ r.phase = "resolved"
  /\ r.resolvedError = "runtime"

\* C22: a run that ends with status 'aborted' resolves with no error field,
\* and no snapshot with status 'aborted' carries an error field, whatever
\* error text the stream delivered before the cancellation.
C22_AbortDiscardsError ==
  (r.abortedActive /\ r.errorAtAbort # "none") =>
    /\ (r.phase = "resolved" /\ r.resolvedStatus = "aborted")
         => r.resolvedError = "none"
    /\ \A sn \in r.snaps : sn.status = "aborted" => sn.error = "none"

\* C23: with an onUpdate callback, once throttledUpdate has been called, a
\* RunState change that has not been emitted yet has a deferred emission
\* pending while the run is active, and when the promise resolves at least
\* one emission has been made and the last one reflects the final state.
C23_NoTrailingMutationDropped ==
  (cfg.onUpdate /\ r.notified) =>
    /\ (r.phase = "pending" /\ r.dirty) => r.updateTimerSet
    /\ r.phase = "resolved" => (r.snapsAtResolve # {} /\ ~r.dirtyAtResolve)

C23_Witness ==
  /\ cfg.onUpdate
  /\ r.notified
  /\ r.phase = "pending"
  /\ r.dirty
  /\ r.updateTimerSet
  /\ r.snaps # {}

\* C24: throttledUpdate emits immediately only if at least THROTTLE_MS have
\* elapsed since the last onUpdate call of any kind (throttled, deferred or
\* forced).
C24_ThrottleCountsEveryEmission ==
  ~r.earlyEmit

\* C25: what the caller reads through a snapshot object it was handed stays
\* what it was at the emission, whatever RunState changes follow (scalar
\* fields, the invocation list and its records, the stderrTail list).
C25_SnapshotIsolated ==
  (content.runner # "none" /\ content.snapshot.taken)
    => view(content, content.snapshot) = content.seen

\* C26: for a stderr text delivered in any chunks, the entries of stderrTail
\* after 'close' are those the same text gives when it arrives as one chunk:
\* a line split across chunks is one entry.
C26_StderrLineBuffered ==
  (content.runner # "none" /\ content.closed) =>
    LET k == content.runner
        start == [content EXCEPT !.stderrBuffer = <<>>, !.stderrTail = <<>>]
    IN content.stderrTail
         = stderrOnClose(k, stderrOnData(k, start, content.input)).stderrTail

\* C27: endedAt is written on an invocation record at most once, and only
\* by a result event carrying that record's id: a result for a closed or
\* unknown invocation changes no record.
C27_InvocationClosedOnce ==
  (content.runner # "none") =>
    \A i \in 1..Len(content.toolCalls) :
      /\ content.toolCalls[i].ends <= 1
      /\ content.toolCalls[i].ends > 0
           => content.toolCalls[i].closedBy = content.toolCalls[i].id

\* C28: after a complete message with non-empty text the transcript is that
\* text; after a run of incremental deltas d1..dk it is, in Gemini, the
\* text present when the deltas began followed by d1 ... dk and, in Qwen,
\* the text of the latest delta.
C28_TranscriptCumulative ==
  content.runner # "none" =>
    /\ (content.lastKind = "assistant_message" /\ content.lastText # <<>>)
         => content.lastAssistantMessage = content.lastText
    /\ content.lastKind = "assistant_delta"
         => content.lastAssistantMessage
              = IF content.runner = "gemini"
                  THEN content.base \o Concat(content.deltas)
                  ELSE content.deltas[Len(content.deltas)]

C28_Witness ==
  /\ content.runner = "gemini"
  /\ content.lastKind = "assistant_delta"
  /\ content.base = <<"b">>
  /\ content.deltas = <<<<"a">>, <<"b">>>>
  /\ content.lastAssistantMessage = <<"b", "a", "b">>

C30_RoundRobinHealthy ==
  (content.runner = "none" /\ content.kind = "keys" /\ content.lastOp = "getNextKey") =>
    LET n == Cardinality(DOMAIN content.keys)
        b == content.before
        healthy(i) == /\ now >= b.keys[i].cooldownUntil
                      /\ b.keys[i].failureCount < content.maxFailures
        after(d) == (b.currentIndex + d) % n
    IN IF \E i \in 0..(n - 1) : healthy(i)
         THEN /\ healthy(content.returned)
              /\ \E d \in 0..(n - 1) :
                   /\ content.returned = after(d)
                   /\ \A e \in 0..(d - 1) : ~healthy(after(e))
              /\ content.currentIndex = (content.returned + 1) % n
              /\ content.keys = b.keys
         ELSE /\ content.returned = 0
              /\ content.keys = [b.keys EXCEPT ![0] = [failureCount |-> 0,
                                                       cooldownUntil |-> 0]]
              /\ content.currentIndex = 1 % n

C30_Witness ==
  /\ content.runner = "none" /\ content.kind = "keys"
  /\ content.lastOp = "getNextKey"
  /\ Cardinality(DOMAIN content.keys) = 3
  /\ content.before.currentIndex = 1
  /\ content.before.keys[1].failureCount >= content.maxFailures
  /\ now < content.before.keys[2].cooldownUntil
  /\ content.returned = 0
  /\ content.before.keys[0].failureCount > 0
  /\ content.currentIndex = 1


\* C31: a tool_call is blocked if and only if the extension's turnIndex is at
\* least maxTurns - 1; it is never blocked on an earlier turn.
C31_BlockedOnFinalTurnOnly ==
  (content.runner = "none" /\ content.kind = "budget" /\ content.lastEvent = "tool_call")
    => (content.block <=> content.turnIndex >= content.maxTurns - 1)

C31_Witness ==
  /\ content.runner = "none" /\ content.kind = "budget"
  /\ content.lastEvent = "tool_call"
  /\ content.maxTurns = DEFAULT_MAX_TURNS
  /\ content.turnIndex = DEFAULT_MAX_TURNS - 1
  /\ content.block
  /\ content.humanTurn = DEFAULT_MAX_TURNS


\* C32: at any moment at most one kill-escalation timer is pending in a run,
\* whatever the sequence of abort, 'close' and 'error' events.
C32_OneKillTimer ==
  r.killTimers <= 1

C32_Witness ==
  /\ r.killTimers = 1
  /\ r.killTimerPending
  /\ r.abortedActive
  /\ r.sigterm = 1
  /\ r.proc = "running"

\* C33: at most one deferred emission is scheduled at any time, and a
\* notification arriving within the throttle interval while one is pending
\* schedules nothing further and emits nothing.
C33_OneDeferredEmission ==
  [][ /\ r'.updateTimers <= 1
      /\ ( /\ r.updateTimerSet
           /\ now - r.lastUpdateTime < THROTTLE_MS
           /\ StdoutData \/ StderrData )
         => /\ r'.updateTimers = r.updateTimers
            /\ r'.updateTimerSet
            /\ r'.updateTimerDue = r.updateTimerDue
            /\ r'.snaps = r.snaps
            /\ r'.lastSnap = r.lastSnap
            /\ r'.lastEmitTime = r.lastEmitTime ]_vars

C33_Witness ==
  /\ r.updateTimers = 1
  /\ r.updateTimerSet
  /\ r.coalesced
  /\ cfg.onUpdate

\* C34: a forced emission (on abort, 'close' or 'error') cancels any pending
\* deferred emission: a deferred emission scheduled before a forced emission
\* never fires after it.
C34_ForcedCancelsDeferred ==
  [][UpdateTimerFire => ~r.forcedWhilePending]_vars

\* C36: a run resolves with status 'done' only if the process closed with
\* exit code 0 and neither a cancellation nor a process 'error' occurred; a
\* process terminated by a signal without cancellation is not 'done'.
C36_DoneOnlyOnCleanExit ==
  (r.phase = "resolved" /\ r.resolvedStatus = "done")
    => /\ r.exitCode = "0"
       /\ ~r.abortedActive
       /\ ~r.processError


\* C35: flush() processes the retained partial line as a final complete line
\* and leaves the buffer empty; on an empty or whitespace-only buffer it
\* returns no events; a second flush() returns no events; a feed after a
\* flush behaves as on a fresh parser.
C35_FlushCompletesAndResets ==
  [][ /\ parser'.lastOp = "flush" =>
           /\ parser'.buffer = <<>>
           /\ parser'.events = feed(parser.kind, parser.buffer, <<"\n">>).events
           /\ trim(parser.buffer) = <<>> => parser'.events = <<>>
           /\ parser.lastOp = "flush" => parser'.events = <<>>
      /\ (parser'.lastOp = "feed" /\ parser.lastOp = "flush") =>
           LET fresh == feed(parser.kind, <<>>, parser'.chunk)
           IN /\ parser'.buffer = fresh.buffer
              /\ parser'.events = fresh.events ]_vars

C35_Witness ==
  /\ parser.kind = "gemini"
  /\ parser.lastOp = "flush"
  /\ parser.buffer = <<>>
  /\ parser.events = <<knownEvent>>


\* C37: one call of performSearch makes at most N request attempts, N the
\* number of configured keys, and never requests with the same key twice,
\* whatever the outcomes of the requests; after N attempts it has returned.
C37_EachKeyAtMostOnce ==
  (content.runner = "none" /\ content.kind = "search") =>
    LET n == Cardinality(DOMAIN content.keys)
    IN /\ content.keysAttempted = Len(content.attempted)
       /\ Len(content.attempted) <= n
       /\ \A i, j \in 1..Len(content.attempted) :
            i # j => content.attempted[i] # content.attempted[j]
       /\ content.pc = "loop" => content.keysAttempted < n
       /\ content.pc = "returned" => content.status # "running"

C37_Witness ==
  /\ content.runner = "none" /\ content.kind = "search"
  /\ content.pc = "returned"
  /\ content.status = "error"
  /\ content.attempted = <<0, 1, 2>>
  /\ content.keys[0].cooldownUntil > 0
  /\ content.keys[0].cooldownUntil <= now
  /\ content.keys[1].failureCount = 1


\* C38: after any sequence of /stash commands, inputs and agent_end events,
\* isRestoreInProgress is true if and only if pendingRestore is non-null,
\* and a pending restore text is not replaced by a later input or stash
\* before the agent_end that consumes it.
C38_PendingRestoreStable ==
  [][ (content.runner = "none" /\ content.kind = "stash") =>
        /\ content.isRestoreInProgress <=> content.pendingRestore # NoText
        /\ content'.isRestoreInProgress <=> content'.pendingRestore # NoText
        /\ (content.pendingRestore # NoText /\ content'.lastEvent # "agent_end")
             => content'.pendingRestore = content.pendingRestore ]_vars

C38_Witness ==
  /\ content.runner = "none" /\ content.kind = "stash"
  /\ content.lastEvent = "stash"
  /\ content.isRestoreInProgress
  /\ content.pendingRestore.n = 1
  /\ content.stashedText.n = 2


\* C39: with overlapping executions, each bumping once and restoring once,
\* the default max-listeners value goes back to the value saved at the
\* first bump exactly when the last outstanding restore runs, not before,
\* and the nesting depth is 0 afterwards.
C39_RestoredByLastRestore ==
  [][ (content.runner = "none" /\ content.kind = "listeners"
       /\ content'.lastOp = "restore") =>
        IF content'.outstanding = 0
          THEN /\ content'.defaultMaxListeners = content.firstDefault
               /\ content'.depth = 0
               /\ ~content'.savedDefault.defined
          ELSE /\ content'.defaultMaxListeners = content.defaultMaxListeners
               /\ ~bumpDisabled(content) => content'.depth = content'.outstanding ]_vars

C39_Witness ==
  /\ content.runner = "none" /\ content.kind = "listeners"
  /\ content.lastOp = "restore"
  /\ content.outstanding = 1
  /\ content.bumps = 2
  /\ content.depth = 1
  /\ content.firstDefault = 10
  /\ content.defaultMaxListeners = DEFAULT_EVENTTARGET_MAX_LISTENERS
  /\ ~content.raw.defined

====
